---- MODULE Spec2Model ----
(***************************************************************************)
(* Model of main.go of duragloss-com-documentation: a sequential crawler   *)
(* that renders one listing page, keeps it as a snapshot file, extracts    *)
(* the .pdf links, removes duplicates, downloads every link into PDFs/     *)
(* and appends the links to the ledger file pdf_links.txt.                 *)
(*                                                                         *)
(* Strings are sequences of tokens (a token is a piece of text that the    *)
(* code never splits: an origin, a slash, a name, an extension).  String   *)
(* concatenation is \o, strings.Contains is the contiguous-subsequence     *)
(* test, and the URL functions work on the tokens.                         *)
(***************************************************************************)
EXTENDS Integers, Sequences, FiniteSets, TLC

VARIABLES
    page,          \* the markup the site serves: a sequence of anchors
    snapshot,      \* file duragloss.html
    outputDir,     \* TRUE iff directory PDFs exists
    files,         \* regular files under PDFs/: filename -> bytes held
    ledger,        \* file pdf_links.txt
    pc,            \* position of main
    pdfLinks,      \* main's pdfLinks (after removeDuplicatesFromSlice)
    readLocalFile, \* main's readLocalFile: ledger text read before the loop
    idx,           \* position of the range loop in pdfLinks
    processed,     \* hrefs the loop of this run has gone through, in order
    rendered,      \* whether this run called scrapePageHTMLWithChrome
    renderOk,      \* whether the latest render returned markup
    last,          \* what the latest iteration of the loop did
    slice,         \* input of removeDuplicatesFromSlice (DedupSpec)
    once,          \* removeDuplicatesFromSlice(slice)
    twice,         \* removeDuplicatesFromSlice(once)
    stage          \* 0, 1, 2: how many times DedupSpec has applied it

mainVars == <<page, snapshot, outputDir, files, ledger, pc, pdfLinks,
              readLocalFile, idx, processed, rendered, renderOk, last>>
dedupVars == <<slice, once, twice, stage>>
vars == <<mainVars, dedupVars>>

----
\* Bounds of the model.
MaxAnchors == 2
MaxSlice == 3

\* Bytes of a non-empty response body.
BodyLen == 2

----
\* Text as token sequences.
BASE == "https://www.duragloss.com"
OtherOrigin == "https://other.test"
Origins == {BASE, OtherOrigin}
HostOf(o) == IF o = BASE THEN "www.duragloss.com" ELSE "other.test"
NL == "\n"

\* strings.ToLower on one token.
ToLowerTok(t) ==
    CASE t = "A" -> "a"
      [] t = ".PDF" -> ".pdf"
      [] OTHER -> t

RECURSIVE ToLower(_)
ToLower(s) ==
    IF s = <<>> THEN <<>> ELSE <<ToLowerTok(Head(s))>> \o ToLower(Tail(s))

\* strings.HasSuffix(s, ".pdf")
HasSuffixPdf(s) == s # <<>> /\ s[Len(s)] = ".pdf"

\* strings.Contains(text, sub)
Contains(text, sub) ==
    \E k \in 0..(Len(text) - Len(sub)) : SubSeq(text, k + 1, k + Len(sub)) = sub

\* The hrefs the anchors of the page may carry.
RelPdf == <<"/", "a", "%20", ".pdf">>
AbsPdf == <<BASE, "/", "a", "%20", ".pdf">>
OtherPdf == <<OtherOrigin, "/", "d", "/", "A", "%20", ".PDF">>
RelTxt == <<"/", "b", ".txt">>
BadPdf == <<OtherOrigin, "/", "%zz", ".pdf">>
Hrefs == {RelPdf, AbsPdf, OtherPdf, RelTxt, BadPdf}

\* An <a> element: with an href attribute or without one.
Anchors == {[exists |-> TRUE, href |-> h] : h \in Hrefs}
             \cup {[exists |-> FALSE, href |-> <<>>]}

SeqsUpTo(S, n) == UNION {[1..k -> S] : k \in 0..n}
Markups == SeqsUpTo(Anchors, MaxAnchors)

----
\* net/url as main.go uses it.

\* A token that is no valid percent-escape.
BadEscape(u) == \E k \in 1..Len(u) : u[k] = "%zz"

\* Position of the first slash of s, Len(s) + 1 when there is none.
FirstSlash(s) ==
    IF \E k \in 1..Len(s) : s[k] = "/"
    THEN CHOOSE k \in 1..Len(s) : s[k] = "/" /\ \A j \in 1..(k - 1) : s[j] # "/"
    ELSE Len(s) + 1

\* Percent-decoding of the path (url.Parse fills Path decoded).
PathUnescapeTok(t) == IF t = "%20" THEN " " ELSE t

RECURSIVE PathUnescape(_)
PathUnescape(s) ==
    IF s = <<>> THEN <<>> ELSE <<PathUnescapeTok(Head(s))>> \o PathUnescape(Tail(s))

\* url.QueryUnescape: an escape or a plus sign becomes a space.
QueryUnescapeTok(t) == IF t \in {"%20", "+"} THEN " " ELSE t

RECURSIVE QueryUnescape(_)
QueryUnescape(s) ==
    IF s = <<>> THEN <<>> ELSE <<QueryUnescapeTok(Head(s))>> \o QueryUnescape(Tail(s))

\* url.Parse: the error, the host (with what follows the origin up to the
\* first slash) and the decoded path.
urlParse(u) ==
    IF BadEscape(u)
    THEN [ok |-> FALSE, host |-> <<>>, path |-> <<>>]
    ELSE IF u # <<>> /\ Head(u) \in Origins
    THEN LET rest == Tail(u)
             k == FirstSlash(rest)
         IN  [ok |-> TRUE,
              host |-> <<HostOf(Head(u))>> \o SubSeq(rest, 1, k - 1),
              path |-> PathUnescape(SubSeq(rest, k, Len(rest)))]
    ELSE [ok |-> TRUE, host |-> <<>>, path |-> PathUnescape(u)]

extractDomainURL(inputUrl) ==
    LET parsedUrl == urlParse(inputUrl)
    IN  IF ~parsedUrl.ok THEN <<>> ELSE parsedUrl.host

\* url.ParseRequestURI succeeds: a non-empty string without a bad escape
\* that begins with a slash or with a scheme.
isUrlValid(uri) ==
    /\ uri # <<>>
    /\ ~BadEscape(uri)
    /\ (Head(uri) = "/" \/ Head(uri) \in Origins)

\* path.Base: "." for the empty path, "/" for a path of slashes only,
\* else what follows the last slash once trailing slashes are dropped.
RECURSIVE StripTrailingSlashes(_)
StripTrailingSlashes(p) ==
    IF p # <<>> /\ p[Len(p)] = "/"
    THEN StripTrailingSlashes(SubSeq(p, 1, Len(p) - 1))
    ELSE p

RECURSIVE AfterLastSlash(_)
AfterLastSlash(p) ==
    IF \E k \in 1..Len(p) : p[k] = "/"
    THEN AfterLastSlash(SubSeq(p, FirstSlash(p) + 1, Len(p)))
    ELSE p

pathBase(p) ==
    IF p = <<>> THEN <<".">>
    ELSE LET q == StripTrailingSlashes(p)
         IN  IF q = <<>> THEN <<"/">> ELSE AfterLastSlash(q)

\* Tokens made of characters of [a-z0-9._-] only.
SafeToks == {"a", "b", "d", ".pdf", ".txt", ".", "_"}

\* regexp [^a-z0-9._-]+ replaced by "_": every maximal run of tokens
\* outside the class becomes one underscore.
RECURSIVE ReplaceUnsafe(_, _)
ReplaceUnsafe(s, inRun) ==
    IF s = <<>> THEN <<>>
    ELSE IF Head(s) \in SafeToks
    THEN <<Head(s)>> \o ReplaceUnsafe(Tail(s), FALSE)
    ELSE IF inRun THEN ReplaceUnsafe(Tail(s), TRUE)
    ELSE <<"_">> \o ReplaceUnsafe(Tail(s), TRUE)

urlToSafeFilename(rawURL) ==
    LET parsedURL == urlParse(rawURL)
    IN  IF ~parsedURL.ok THEN <<>>
        ELSE LET base == pathBase(parsedURL.path)
                 decoded == QueryUnescape(base)
             IN  ReplaceUnsafe(ToLower(decoded), FALSE)

\* extractPDFLinks: the hrefs, in document order, of the anchors whose href
\* exists and ends in .pdf once lowercased.
RECURSIVE extractPDFLinks(_)
extractPDFLinks(html) ==
    IF html = <<>> THEN <<>>
    ELSE LET s == Head(html)
         IN  IF s.exists /\ HasSuffixPdf(ToLower(s.href))
             THEN <<s.href>> \o extractPDFLinks(Tail(html))
             ELSE extractPDFLinks(Tail(html))

\* Mutant: a value seen again moves to the end (the last occurrence stays).
removeDuplicatesStep_keepLast(acc, content) ==
    [check |-> acc.check \cup {content},
     newReturnSlice |->
        Append(SelectSeq(acc.newReturnSlice, LAMBDA x : x # content), content)]

\* One iteration of removeDuplicatesFromSlice's loop on acc = the pair of
\* the map check (as the set of its true keys) and newReturnSlice.
removeDuplicatesStep(acc, content) ==
    IF content \notin acc.check
    THEN [check |-> acc.check \cup {content},
          newReturnSlice |-> Append(acc.newReturnSlice, content)]
    ELSE acc

RECURSIVE removeDuplicatesLoop(_, _)
removeDuplicatesLoop(acc, s) ==
    IF s = <<>> THEN acc
    ELSE removeDuplicatesLoop(removeDuplicatesStep(acc, Head(s)), Tail(s))

removeDuplicatesFromSlice(s) ==
    removeDuplicatesLoop([check |-> {}, newReturnSlice |-> <<>>], s).newReturnSlice

\* Mutant: the link is handed on as found.
Normalize_asis(link) == link

\* Lines 46-49 of main: a link without a host gets the base origin in front.
Normalize(link) ==
    LET domain == extractDomainURL(link)
    IN  IF domain = <<>> THEN <<BASE>> \o link ELSE link

----
\* The file system.

\* A text file: whether it exists, and its lines (WriteString(content + "\n")
\* is the only write, so a file is a sequence of complete lines).
NoFile == [exists |-> FALSE, lines |-> <<>>]

\* fileExists on a text file, and on a path under PDFs/ (a directory, as
\* for the empty filename, is no file).
fileExists(f) == f.exists
pdfFileExists(fs, filename) == filename \in DOMAIN fs

directoryExists(d) == d

\* createDirectory: os.Mkdir makes the directory (a disk that refuses is
\* modelled where it matters, as the failure of os.Create).
createDirectory(d) == TRUE

\* Mutant: the file is truncated on open (O_TRUNC for O_APPEND).
appendAndWriteToFile_trunc(f, content) == [exists |-> TRUE, lines |-> <<content>>]

\* appendAndWriteToFile: O_APPEND|O_CREATE, then content and a newline.
appendAndWriteToFile(f, content) ==
    [exists |-> TRUE, lines |-> Append(f.lines, content)]

RECURSIVE Flatten(_)
Flatten(ls) == IF ls = <<>> THEN <<>> ELSE Head(ls) \o Flatten(Tail(ls))

\* readAFileAsString of the snapshot: the markup of all its lines; of the
\* ledger: its lines, each with its newline.  A missing file reads as "".
readSnapshotAsString(f) == Flatten(f.lines)
RECURSIVE JoinLines(_)
JoinLines(ls) == IF ls = <<>> THEN <<>> ELSE Head(ls) \o <<NL>> \o JoinLines(Tail(ls))

readLedgerAsString(f) == JoinLines(f.lines)

----
\* What the network and the disk do to one call of downloadPDF.
Statuses == {200, 206, 404}
PDF == "application/pdf"
HTML == "text/html"

Response(err, status, ctype, readErr, len) ==
    [err |-> err, status |-> status, ctype |-> ctype, readErr |-> readErr, len |-> len]

NetError == Response(TRUE, 0, "", FALSE, 0)
GoodResponse == Response(FALSE, 200, PDF, FALSE, BodyLen)
Responses ==
    { NetError,
      Response(FALSE, 404, HTML, FALSE, BodyLen),
      Response(FALSE, 206, PDF, FALSE, BodyLen),
      Response(FALSE, 200, HTML, FALSE, BodyLen),
      Response(FALSE, 200, PDF, TRUE, 0),
      Response(FALSE, 200, PDF, FALSE, 0),
      GoodResponse }

DiskOk == [createOk |-> TRUE, writeOk |-> TRUE]
CreateFails == [createOk |-> FALSE, writeOk |-> FALSE]
WriteFails == [createOk |-> TRUE, writeOk |-> FALSE]

\* os.Create can succeed only in an existing directory and on a name that
\* is no directory itself.
CreatePossible(dir, filename) ==
    directoryExists(dir) /\ filename \notin {<<>>, <<".">>, <<"/">>}

\* The environments of a call: the GET of an unparseable URL fails in the
\* client; a disk failure is drawn only with the response that reaches the
\* disk, except that an impossible creation fails whatever the response.
DownloadEnvs(dir, finalURL, filename) ==
    { e \in [resp : Responses, disk : {DiskOk, CreateFails, WriteFails}] :
        /\ ~urlParse(finalURL).ok => e.resp = NetError
        /\ ~CreatePossible(dir, filename) => e.disk = CreateFails
        /\ (CreatePossible(dir, filename) /\ e.disk # DiskOk) => e.resp = GoodResponse }

NoEnv == [resp |-> NetError, disk |-> CreateFails]

\* Mutant: the content type is not checked.
ContentTypeOk_any(ctype) == TRUE

\* strings.Contains(contentType, "application/pdf")
ContentTypeOk(ctype) == ctype = PDF

\* resp.StatusCode != http.StatusOK
StatusOk(status) == status = 200

\* Mutant: an existing file does not stop the download.
SkipDownload_never(fs, filename) == FALSE

\* Lines 178-181 of downloadPDF: skip when the target file exists.
SkipDownload(fs, filename) == pdfFileExists(fs, filename)

WriteFile(fs, filename, bytes) == (filename :> bytes) @@ fs

\* downloadPDF: the files under PDFs/ after the call.  Every failure
\* returns; os.Create leaves an empty file that a failed write keeps.
downloadPDF(fs, filename, e) ==
    IF SkipDownload(fs, filename) THEN fs
    ELSE IF e.resp.err THEN fs
    ELSE IF ~StatusOk(e.resp.status) THEN fs
    ELSE IF ~ContentTypeOk(e.resp.ctype) THEN fs
    ELSE IF e.resp.readErr THEN fs
    ELSE IF e.resp.len = 0 THEN fs
    ELSE IF ~e.disk.createOk THEN fs
    ELSE IF ~e.disk.writeOk THEN WriteFile(fs, filename, 0)
    ELSE WriteFile(fs, filename, e.resp.len)

\* Lines 46-49 of main and line 175 of downloadPDF, tabulated over the
\* hrefs a page can hold: the link handed on, and its target filename.
LinkOf == [h \in Hrefs |-> Normalize(h)]
FilenameOf == [h \in Hrefs |-> ToLower(urlToSafeFilename(Normalize(h)))]

\* Mutant: a failed GET ends the process (log.Fatalf for log.Printf).
pcAfterDownload_fatal(skip, e) == IF ~skip /\ e.resp.err THEN "exited" ELSE "loop"

\* Where main is after downloadPDF returned: back in the loop, whatever
\* the call did (every path of downloadPDF logs and returns).
pcAfterDownload(skip, e) == "loop"

\* Mutant: every run renders.
NeedsRender_always(f) == TRUE

\* Lines 27-31 of main: render only when the snapshot file is missing.
NeedsRender(f) == ~fileExists(f)

----
NoLast == [called |-> FALSE, raw |-> <<>>, link |-> <<>>, filename |-> <<>>,
           existed |-> FALSE, before |-> 0, got |-> FALSE, env |-> NoEnv,
           seen |-> FALSE, recorded |-> FALSE]

MainInit ==
    /\ snapshot = NoFile
    /\ outputDir = FALSE
    /\ files = <<>>
    /\ ledger = NoFile
    /\ pc = "idle"
    /\ pdfLinks = <<>>
    /\ readLocalFile = <<>>
    /\ idx = 1
    /\ processed = <<>>
    /\ rendered = FALSE
    /\ renderOk = FALSE
    /\ last = NoLast

Init ==
    /\ page \in Markups
    /\ MainInit
    /\ slice = <<>> /\ once = <<>> /\ twice = <<>> /\ stage = 0

Stopped == {"idle", "Done", "Aborted"}

\* The operator starts the program.
StartRun ==
    /\ pc \in Stopped
    /\ pc' = "main"
    /\ pdfLinks' = <<>> /\ readLocalFile' = <<>> /\ idx' = 1
    /\ processed' = <<>> /\ last' = NoLast
    /\ rendered' = FALSE
    /\ UNCHANGED <<page, snapshot, outputDir, files, ledger, renderOk>>
    /\ UNCHANGED dedupVars

\* main, lines 27-31: the snapshot is missing; scrape and save.  The
\* scrape returns "" on failure; the save logs and goes on when it fails.
RenderSnapshot ==
    /\ pc = "main"
    /\ NeedsRender(snapshot)
    /\ \E ok \in BOOLEAN, saved \in BOOLEAN :
         LET data == IF ok THEN page ELSE <<>>
         IN  /\ snapshot' = IF saved THEN appendAndWriteToFile(snapshot, data)
                                     ELSE snapshot
             /\ renderOk' = ok
    /\ rendered' = TRUE
    /\ pc' = "mkdir"
    /\ UNCHANGED <<page, outputDir, files, ledger, pdfLinks, readLocalFile,
                   idx, processed, last>>
    /\ UNCHANGED dedupVars

\* main, line 27: the snapshot exists; nothing is rendered.
KeepSnapshot ==
    /\ pc = "main"
    /\ ~NeedsRender(snapshot)
    /\ pc' = "mkdir"
    /\ UNCHANGED <<page, snapshot, outputDir, files, ledger, pdfLinks,
                   readLocalFile, idx, processed, rendered, renderOk, last>>
    /\ UNCHANGED dedupVars

\* main, lines 33-36: create PDFs when missing.
EnsureOutputDir ==
    /\ pc = "mkdir"
    /\ outputDir' = IF directoryExists(outputDir) THEN outputDir
                                                  ELSE createDirectory(outputDir)
    /\ pc' = "read"
    /\ UNCHANGED <<page, snapshot, files, ledger, pdfLinks, readLocalFile,
                   idx, processed, rendered, renderOk, last>>
    /\ UNCHANGED dedupVars

\* main, lines 38-43: read the snapshot, extract, deduplicate, read the ledger.
ReadSnapshot ==
    /\ pc = "read"
    /\ fileExists(snapshot)
    /\ \E htmlContent \in {readSnapshotAsString(snapshot)} :
         \E links \in {extractPDFLinks(htmlContent)} :
           pdfLinks' = removeDuplicatesFromSlice(links)
    /\ readLocalFile' = readLedgerAsString(ledger)
    /\ idx' = 1
    /\ pc' = "loop"
    /\ UNCHANGED <<page, snapshot, outputDir, files, ledger, processed,
                   rendered, renderOk, last>>
    /\ UNCHANGED dedupVars

\* main, lines 61-63: no snapshot file.
Abort ==
    /\ pc = "read"
    /\ ~fileExists(snapshot)
    /\ pc' = "Aborted"
    /\ UNCHANGED <<page, snapshot, outputDir, files, ledger, pdfLinks,
                   readLocalFile, idx, processed, rendered, renderOk, last>>
    /\ UNCHANGED dedupVars

\* main, lines 45-60: one iteration of the loop.
ProcessLink ==
    /\ pc = "loop"
    /\ idx <= Len(pdfLinks)
    /\ LET raw == pdfLinks[idx]
           link == LinkOf[raw]
           filename == FilenameOf[raw]
           existed == pdfFileExists(files, filename)
           skip == SkipDownload(files, filename)
           seen == Contains(readLocalFile, link)
           record == ~seen /\ isUrlValid(link)
       IN  \E e \in (IF skip THEN {NoEnv} ELSE DownloadEnvs(outputDir, link, filename)),
              appended \in (IF record THEN BOOLEAN ELSE {FALSE}) :
             /\ files' = downloadPDF(files, filename, e)
             /\ ledger' = IF appended THEN appendAndWriteToFile(ledger, link) ELSE ledger
             /\ last' = [called |-> TRUE, raw |-> raw, link |-> link,
                         filename |-> filename, existed |-> existed,
                         before |-> IF existed THEN files[filename] ELSE 0,
                         got |-> ~skip,
                         env |-> e, seen |-> seen, recorded |-> appended]
             /\ pc' = pcAfterDownload(skip, e)
    /\ idx' = idx + 1
    /\ processed' = Append(processed, pdfLinks[idx])
    /\ UNCHANGED <<page, snapshot, outputDir, pdfLinks, readLocalFile,
                   rendered, renderOk>>
    /\ UNCHANGED dedupVars

\* main, line 60: the range is exhausted.
FinishRun ==
    /\ pc = "loop"
    /\ idx > Len(pdfLinks)
    /\ pc' = "Done"
    /\ UNCHANGED <<page, snapshot, outputDir, files, ledger, pdfLinks,
                   readLocalFile, idx, processed, rendered, renderOk, last>>
    /\ UNCHANGED dedupVars

\* The operator deletes the snapshot between two runs to force a re-scrape.
DeleteSnapshot ==
    /\ pc \in Stopped
    /\ fileExists(snapshot)
    /\ snapshot' = NoFile
    /\ UNCHANGED <<page, outputDir, files, ledger, pc, pdfLinks,
                   readLocalFile, idx, processed, rendered, renderOk, last>>
    /\ UNCHANGED dedupVars

ProgramStep ==
    \/ RenderSnapshot
    \/ KeepSnapshot
    \/ EnsureOutputDir
    \/ ReadSnapshot
    \/ Abort
    \/ ProcessLink
    \/ FinishRun

Next ==
    \/ StartRun
    \/ DeleteSnapshot
    \/ ProgramStep

Spec == Init /\ [][Next]_vars

\* The program is scheduled until it exits; the operator need not act.
LiveSpec == Init /\ [][Next]_vars /\ WF_vars(ProgramStep)

----
\* removeDuplicatesFromSlice on its own: every slice of at most MaxSlice
\* links, deduplicated once and then once more.
DedupValues == {RelPdf, AbsPdf, OtherPdf}

DedupInit ==
    /\ page = <<>>
    /\ MainInit
    /\ slice \in SeqsUpTo(DedupValues, MaxSlice)
    /\ once = <<>> /\ twice = <<>> /\ stage = 0

ApplyOnce ==
    /\ stage = 0
    /\ once' = removeDuplicatesFromSlice(slice)
    /\ stage' = 1
    /\ UNCHANGED <<slice, twice>>
    /\ UNCHANGED mainVars

ApplyTwice ==
    /\ stage = 1
    /\ twice' = removeDuplicatesFromSlice(once)
    /\ stage' = 2
    /\ UNCHANGED <<slice, once>>
    /\ UNCHANGED mainVars

DedupNext ==
    \/ ApplyOnce
    \/ ApplyTwice

DedupSpec == DedupInit /\ [][DedupNext]_vars

----
\* Properties.

TypeOK ==
    /\ page \in Markups
    /\ snapshot.exists \in BOOLEAN
    /\ outputDir \in BOOLEAN
    /\ pc \in {"idle", "main", "mkdir", "read", "loop", "Done", "Aborted"}
    /\ idx \in 1..(Len(pdfLinks) + 1)
    /\ rendered \in BOOLEAN /\ renderOk \in BOOLEAN
    /\ stage \in 0..2

LedgerHas(f, link) == \E k \in 1..Len(f.lines) : f.lines[k] = link

IsPrefix(s, t) == Len(s) <= Len(t) /\ SubSeq(t, 1, Len(s)) = s

\* A link has a host component when it parses and begins with an origin.
HasHostComponent(u) == u # <<>> /\ Head(u) \in Origins /\ ~BadEscape(u)

FirstIndex(s, v) == CHOOSE k \in 1..Len(s) : s[k] = v /\ \A j \in 1..(k - 1) : s[j] # v

\* C1: a link that is already in the ledger content read at the start of
\* the run gets no download attempt: no HTTP GET is issued for it.
C1_LedgerCheckBeforeDownload ==
    (last.called /\ last.seen) => ~last.got

\* C2: after a link whose download got an HTTP 404 response has been
\* processed, no file for it exists in PDFs/ and the ledger has no entry
\* for it.
C2_NotFoundLeavesNoTrace ==
    (last.called /\ last.got /\ ~last.env.resp.err /\ last.env.resp.status = 404)
        => /\ ~pdfFileExists(files, last.filename)
           /\ ~LedgerHas(ledger, last.link)

\* The checks of a download as the claim lists them, with any 2xx status
\* accepted.
AllChecksPass2xx(e) ==
    /\ ~e.resp.err
    /\ e.resp.status \in 200..299
    /\ e.resp.ctype = PDF
    /\ ~e.resp.readErr /\ e.resp.len > 0
    /\ e.disk.createOk /\ e.disk.writeOk

\* The checks up to the creation of the file, with status 200 only.
ChecksPassToCreate(e) ==
    /\ ~e.resp.err
    /\ e.resp.status = 200
    /\ e.resp.ctype = PDF
    /\ ~e.resp.readErr /\ e.resp.len > 0
    /\ e.disk.createOk

\* C3 as stated: after a call of the Downloader on a link whose target
\* file did not exist, the file exists iff the GET succeeded, the status
\* was a 2xx, the content type was application/pdf, the body was
\* non-empty and the file was created and written.
C3_FileIffAllChecksPass2xx ==
    (last.called /\ ~last.existed)
        => (pdfFileExists(files, last.filename) <=> AllChecksPass2xx(last.env))

\* C3 as amended: after such a call the file exists iff the GET succeeded,
\* the status was exactly 200, the content type was application/pdf, the
\* body was non-empty and the file could be created; it holds the whole
\* body iff the write succeeded too, and is empty otherwise.  A non-200
\* status, a text/html response and a zero-byte body leave no file.
C3_FileIffChecksPass200 ==
    (last.called /\ ~last.existed)
        => /\ pdfFileExists(files, last.filename) <=> ChecksPassToCreate(last.env)
           /\ pdfFileExists(files, last.filename)
                => files[last.filename] =
                     (IF last.env.disk.writeOk THEN last.env.resp.len ELSE 0)
           /\ (last.env.resp.status # 200 \/ last.env.resp.ctype = HTML
                 \/ last.env.resp.len = 0)
                => ~pdfFileExists(files, last.filename)

\* A 206 response with a PDF body and a working disk left no file.
C3_Witness ==
    /\ last.called /\ ~last.existed /\ last.got
    /\ last.env.resp = Response(FALSE, 206, PDF, FALSE, BodyLen)
    /\ last.env.disk = DiskOk
    /\ ~pdfFileExists(files, last.filename)

\* C4: when the target file of a link exists, the Downloader issues no
\* GET and the file keeps its contents, whatever the ledger holds.
C4_ExistingFileSkipped ==
    (last.called /\ last.existed)
        => /\ ~last.got
           /\ pdfFileExists(files, last.filename)
           /\ files[last.filename] = last.before

\* A later run met the file of a recorded link, downloaded in full.
C4_Witness ==
    /\ last.called /\ last.existed /\ last.seen
    /\ files[last.filename] = BodyLen

\* C5: a run that has started ends in Done or Aborted; a run that entered
\* the loop ends in Done, having gone through every deduplicated link
\* once, in order, whatever failed on the way.
C5_RunTerminates ==
    /\ [](pc \in {"loop", "Done"} => processed = SubSeq(pdfLinks, 1, idx - 1))
    /\ [](pc = "Done" => processed = pdfLinks)
    /\ [][pc = "loop" => pc' \in {"loop", "Done"}]_vars
    /\ [](pc \in {"main", "mkdir", "read", "loop"} => <>(pc \in {"Done", "Aborted"}))

\* A run is Done: its first link failed (the GET of an unparseable URL
\* always does) and its second one was downloaded afterwards.
C5_Witness ==
    /\ pc = "Done"
    /\ processed = <<BadPdf, RelPdf>>
    /\ last.raw = RelPdf /\ last.got
    /\ pdfFileExists(files, last.filename)

\* C6: every step leaves the earlier ledger lines as a prefix of the
\* ledger, adds at most one line and never removes the file.
C6_LedgerAppendOnly ==
    [][/\ IsPrefix(ledger.lines, ledger'.lines)
       /\ Len(ledger'.lines) <= Len(ledger.lines) + 1
       /\ (ledger.exists => ledger'.exists)]_vars

\* A line was appended to a ledger that had lines already.
C6_Witness ==
    /\ Len(ledger.lines) >= 2
    /\ last.recorded /\ last.seen = FALSE
    /\ readLocalFile # <<>>

\* C7: removeDuplicatesFromSlice(S) holds every distinct value of S once,
\* in order of first appearance in S, and applying it again changes
\* nothing.
C7_DedupFirstOccurrences ==
    /\ stage >= 1 =>
         /\ \A i, j \in 1..Len(once) : i # j => once[i] # once[j]
         /\ {once[k] : k \in 1..Len(once)} = {slice[k] : k \in 1..Len(slice)}
         /\ \A i, j \in 1..Len(once) :
              i < j => FirstIndex(slice, once[i]) < FirstIndex(slice, once[j])
    /\ stage = 2 => twice = once

\* A slice x, y, x went through both applications.
C7_Witness ==
    /\ stage = 2
    /\ Len(slice) = 3 /\ slice[1] = slice[3] /\ slice[1] # slice[2]
    /\ Len(once) = 2

OperatorDeletes == pc \in Stopped /\ pc' = pc /\ fileExists(snapshot) /\ snapshot' = NoFile

\* C9: the Renderer is called only by a run that finds no snapshot file,
\* and while the file exists no step but the operator's deletion changes
\* it or calls the Renderer.
C9_SnapshotCreatedOnce ==
    /\ [][(rendered' /\ ~rendered) => (pc = "main" /\ ~fileExists(snapshot))]_vars
    /\ [][(fileExists(snapshot) /\ ~OperatorDeletes)
            => (snapshot' = snapshot /\ (rendered' => rendered))]_vars

\* A run that did not render is Done on the snapshot of a failed render.
C9_Witness ==
    /\ pc = "Done" /\ ~rendered
    /\ fileExists(snapshot) /\ ~renderOk
    /\ snapshot.lines = << <<>> >>

\* C10: no link is on more than one line of the ledger.
C10_NoDuplicateLedgerLines ==
    \A i, j \in 1..Len(ledger.lines) : i # j => ledger.lines[i] # ledger.lines[j]

====
